---- MODULE Spec2Model ----
(***************************************************************************)
(* Model of the figure-of-merit notebook gen_FoM_dataset.ipynb: the cell   *)
(* that selects one PTA per pulsar from FoM_dict (the Selector), the cells *)
(* that construct FoM_dict from the filtered TOAs of every pulsar, save it *)
(* and load it, and the three FoM formulas; and of the notebook of the GWB *)
(* analysis: the cell that makes the list of pulsars and the loop that     *)
(* builds one signal model per loaded pulsar.                              *)
(*                                                                         *)
(* Floats are modelled as extended rationals n/d with d >= 0, in lowest    *)
(* terms: 1/0 is +infinity (np.inf) and 0/0 is NaN.  Comparisons are made  *)
(* by cross multiplication, which gives the IEEE results for these         *)
(* values: +infinity is above every finite value and every comparison      *)
(* with NaN is false.                                                      *)
(***************************************************************************)
EXTENDS Integers, Sequences, FiniteSets, TLC

VARIABLES FoM_dict, ptas, psrdict, best, pc, psrIdx, ptaIdx,
          emits, examined, prevdict, perm,
          redo, dict_file, toas, psr, data_file, fomCalls, cells,
          args, fom,
          NG, EPTA, PPTA, PPTA4, specific_psrs, gwb_psrlist, psrs, models,
          datadir, parfiles, timfiles

(* Written by the Selector cell (emits, examined and prevdict record its   *)
(* history); perm is the order in which the cell goes through psrlist.     *)
selVars == <<psrdict, best, emits, examined, prevdict, perm>>

(* Read or written by the cells that construct, save and load FoM_dict     *)
(* (fomCalls records the evaluations of my_FoM, cells the two files as     *)
(* they were before the first cell and the cell bodies entered since).     *)
buildVars == <<redo, dict_file, toas, psr, data_file, fomCalls, cells>>

(* The arguments and the result of one call of a FoM formula. *)
fomVars == <<args, fom>>

(* The files of the data directory and the two lists of file names that   *)
(* the GWB notebook makes of them.                                         *)
loadVars == <<datadir, parfiles, timfiles>>

(* The variables of the notebook of the GWB analysis. *)
gwbVars == <<NG, EPTA, PPTA, PPTA4, specific_psrs, gwb_psrlist, psrs, models,
             loadVars>>

vars == <<FoM_dict, ptas, psrdict, best, pc, psrIdx, ptaIdx,
          emits, examined, prevdict, perm,
          redo, dict_file, toas, psr, data_file, fomCalls, cells,
          args, fom,
          NG, EPTA, PPTA, PPTA4, specific_psrs, gwb_psrlist, psrs, models,
          datadir, parfiles, timfiles>>

----------------------------------------------------------------------------
(* Numbers *)

Num(k) == [n |-> k, d |-> 1]

Inf == [n |-> 1, d |-> 0]

GT(a, b) == a.n * b.d > b.n * a.d

LT(a, b) == GT(b, a)

RECURSIVE GCD(_, _)
GCD(a, b) == IF b = 0 THEN a ELSE GCD(b, a % b)

(* The value n/d for n >= 0 and d >= 0, in lowest terms. *)
Rat(n, d) ==
  IF d = 0 THEN [n |-> IF n > 0 THEN 1 ELSE 0, d |-> 0]
  ELSE LET g == GCD(n, d) IN [n |-> n \div g, d |-> d \div g]

RatAdd(a, b) == Rat(a.n * b.d + b.n * a.d, a.d * b.d)

RatDiv(a, b) == Rat(a.n * b.d, a.d * b.n)

(* Terms for the float operations whose results are not rational or do not *)
(* fit the integers of the model: x**k, x/y and np.sqrt(x), unevaluated.   *)
Pow(x, k) == [op |-> "**", base |-> x, exp |-> k]

Quot(x, y) == [op |-> "/", num |-> x, den |-> y]

Sqrt(x) == [op |-> "sqrt", arg |-> x]

(* x * y  and  x ** q  for an exponent q that is a float (a signed         *)
(* rational of the model).                                                 *)
Mul(x, y) == [op |-> "*", left |-> x, right |-> y]

PowF(x, q) == [op |-> "**f", base |-> x, exp |-> q]

----------------------------------------------------------------------------
(* Configuration cells *)

Tmin == 5

sigmax == 10

PtaNames == {"PPTA", "EPTA", "NANOGrav"}

backends ==
  [p \in PtaNames |->
     CASE p = "NANOGrav" ->
            <<"327_ASP", "430_ASP", "L-wide_ASP", "S-wide_ASP",
              "327_PUPPI", "430_PUPPI", "L-wide_PUPPI", "S-wide_PUPPI",
              "Rcvr_800_GASP", "Rcvr1_2_GASP",
              "Rcvr_800_GUPPI", "Rcvr1_2_GUPPI">>
       [] p = "PPTA" ->
            <<"PDFB_10CM", "PDFB_20CM", "PDFB_40CM",
              "CPSR2_20CM", "CPSR2_50CM",
              "WBCORR_10CM", "WBCORR_20CM">>
       [] p = "EPTA" ->
            <<"EFF.EBPP.1360", "EFF.EBPP.1410", "EFF.EBPP.2639",
              "JBO.DFB.1400", "JBO.DFB.1520",
              "NRT.BON.1400", "NRT.BON.1600", "NRT.BON.2000",
              "WSRT.P1.328", "WSRT.P1.328.C", "WSRT.P1.323.C",
              "WSRT.P1.382", "WSRT.P1.382.C", "WSRT.P1.367.C",
              "WSRT.P1.840", "WSRT.P1.840.C",
              "WSRT.P1.1380", "WSRT.P1.1380.C",
              "WSRT.P1.1380.1",
              "WSRT.P1.1380.2", "WSRT.P1.1380.2.C",
              "WSRT.P1.2273.C">>]

(* psrlist: the sorted list of the pulsar directories of the release. *)
psrlist == <<"J0437-4715", "J1713+0747">>

Pulsars == {psrlist[k] : k \in 1..Len(psrlist)}

----------------------------------------------------------------------------
(* Bounded inputs *)

MaxFoM == 2

MaxRecs == 2

(* The record of a (pulsar, PTA) with no surviving TOA. *)
NoDataRecord == [Tobs |-> Num(0), dt |-> Inf, sigma |-> Inf, FoM |-> Num(0)]

(* Records of FoM_dict: above both thresholds with every FoM value, on     *)
(* either threshold with the top FoM value, and the record of a            *)
(* (pulsar, PTA) with no surviving TOA.                                    *)
Records ==
  {[Tobs |-> Num(Tmin + 1), dt |-> Num(1), sigma |-> Num(sigmax - 1), FoM |-> Num(f)] :
      f \in 0..MaxFoM}
  \cup {[Tobs |-> Num(Tmin), dt |-> Num(1), sigma |-> Num(sigmax - 1), FoM |-> Num(MaxFoM)],
        [Tobs |-> Num(Tmin + 1), dt |-> Num(1), sigma |-> Num(sigmax), FoM |-> Num(MaxFoM)],
        NoDataRecord}

InnerDicts == UNION {[S -> Records] : S \in SUBSET PtaNames}

Dicts == UNION {[S -> InnerDicts] : S \in SUBSET Pulsars}

RECURSIVE SumCard(_, _)
SumCard(D, S) ==
  IF S = {} THEN 0
  ELSE LET p == CHOOSE x \in S : TRUE
       IN Cardinality(DOMAIN D[p]) + SumCard(D, S \ {p})

NRecs(D) == SumCard(D, DOMAIN D)

Orders == {s \in [1..Cardinality(PtaNames) -> PtaNames] :
             \A a, b \in DOMAIN s : a # b => s[a] # s[b]}

----------------------------------------------------------------------------
(* The Selector cell *)

None == "None"

EmptyDict == [x \in {} |-> None]

(* The same loop with best bound once, before the loop over psrlist. *)
InitBestStale == best

InitBest == [pta |-> None, Tobs |-> Num(0), FoM |-> Num(0)]

(* FoM_dict[psrname][pta] raises KeyError when either key is missing. *)
RaisesKeyError(D, psrname, pta) ==
  \/ psrname \notin DOMAIN D
  \/ pta \notin DOMAIN D[psrname]

(* The threshold test without the test of sigma. *)
QualifiesNoSigma(this) == GT(this.Tobs, Num(Tmin))

(* The threshold test with >= and <=. *)
QualifiesNonStrict(this) ==
  /\ ~LT(this.Tobs, Num(Tmin))
  /\ ~GT(this.sigma, Num(sigmax))

Qualifies(this) ==
  /\ GT(this.Tobs, Num(Tmin))
  /\ LT(this.sigma, Num(sigmax))

Better(this, b) == GT(this.FoM, b.FoM)

(* The test of line 459 reduced to  this['FoM'] >= best['FoM']. *)
AcceptsFoMOnly(this, b) == ~LT(this.FoM, b.FoM)

Accepts(this, b) == Qualifies(this) /\ Better(this, b)

(* The read done as  this = FoM_dict[psrname].pop(pta), which removes the  *)
(* record from FoM_dict.                                                   *)
AfterPop(D, psrname, pta) ==
  [D EXCEPT ![psrname] = [c \in DOMAIN @ \ {pta} |-> @[c]]]

(* FoM_dict after  this = FoM_dict[psrname][pta]: a subscription reads. *)
AfterRead(D, psrname, pta) == D

(* The loop body without its try/except. *)
NoHandler == FALSE

CatchesKeyError == TRUE

Update(d, k, v) == [x \in DOMAIN d \cup {k} |-> IF x = k THEN v ELSE d[x]]

(* The entry built with the loop variable pta, which holds the last       *)
(* candidate once the loop over ptas has ended.                            *)
EntryLoopVar(b) == [pta |-> <<b.pta>>, group |-> backends[ptas[Len(ptas)]]]

Entry(b) == [pta |-> <<b.pta>>, group |-> backends[b.pta]]

NoPsr == [name |-> None, deleted |-> {}]

(* A file that does not exist; a file that exists is the sequence of what  *)
(* was written to it.                                                      *)
NoFile == <<>>

(* json.dump and json.load: the text of a dict whose leaves are floats     *)
(* gives back the dict.                                                    *)
JsonDump(D) == [json |-> D]

JsonLoad(text) == text.json

(* os.path.isfile *)
isfile(f) == f # NoFile

(* psrlist is gone through from its first name to its last. *)
IdPerm == [k \in 1..Len(psrlist) |-> k]

(* No FoM formula has been called. *)
FomIdle == args = <<>> /\ fom = <<>>

(* The notebook of the GWB analysis has not been run: its switches have    *)
(* the values of its configuration cell.                                   *)
GwbIdle ==
  /\ NG = FALSE
  /\ EPTA = FALSE
  /\ PPTA = FALSE
  /\ PPTA4 = FALSE
  /\ specific_psrs = <<>>
  /\ gwb_psrlist = <<>>
  /\ psrs = <<>>
  /\ models = <<>>
  /\ datadir = {}
  /\ parfiles = <<>>
  /\ timfiles = <<>>

TypeOK ==
  /\ FoM_dict \in Dicts
  /\ ptas \in Orders
  /\ pc \in {"idle", "psr", "pta", "done", "aborted"}
  /\ psrIdx \in 1..(Len(psrlist) + 1)
  /\ ptaIdx \in 1..(Len(ptas) + 1)
  /\ DOMAIN psrdict \subseteq Pulsars

(* The state before the Selector cell runs, for the orders perms in which  *)
(* psrlist may be gone through.                                            *)
InitSelector(perms) ==
  /\ FoM_dict \in {D \in Dicts : NRecs(D) <= MaxRecs}
  /\ ptas \in Orders
  /\ psrdict = EmptyDict
  /\ best = [pta |-> None, Tobs |-> Num(0), FoM |-> Num(0)]
  /\ pc = "idle"
  /\ psrIdx = 1
  /\ ptaIdx = 1
  /\ emits = [p \in Pulsars |-> 0]
  /\ examined = {}
  /\ prevdict = <<>>
  /\ perm \in perms
  /\ redo = FALSE
  /\ dict_file = <<JsonDump(FoM_dict)>>
  /\ toas = [p \in Pulsars |-> {}]
  /\ psr = NoPsr
  /\ data_file = <<>>
  /\ fomCalls = {}
  /\ cells = [files |-> <<dict_file, data_file>>, ran |-> <<>>]
  /\ FomIdle
  /\ GwbIdle

Init == InitSelector({IdPerm})

(* psrdict = {}  and entry of the loop over psrlist; a finished run may be *)
(* followed by another run of the cell.                                   *)
RunCell ==
  /\ pc \in {"idle", "done"}
  /\ psrdict' = EmptyDict
  /\ pc' = "psr"
  /\ psrIdx' = 1
  /\ emits' = [p \in Pulsars |-> 0]
  /\ examined' = {}
  /\ prevdict' = IF pc = "done" THEN <<psrdict>> ELSE prevdict
  /\ UNCHANGED <<FoM_dict, ptas, best, ptaIdx>>
  /\ UNCHANGED buildVars
  /\ UNCHANGED <<perm, fomVars, gwbVars>>

(* for psrname in psrlist: best = {...} *)
NextPsr ==
  /\ pc = "psr"
  /\ IF psrIdx <= Len(psrlist)
       THEN /\ best' = InitBest
            /\ ptaIdx' = 1
            /\ pc' = "pta"
       ELSE /\ pc' = "done"
            /\ UNCHANGED <<best, ptaIdx>>
  /\ UNCHANGED <<FoM_dict, ptas, psrdict, psrIdx, emits, examined, prevdict>>
  /\ UNCHANGED buildVars
  /\ UNCHANGED <<perm, fomVars, gwbVars>>

(* One iteration of  for pta in ptas: try ... except KeyError: pass *)
TryPta ==
  /\ pc = "pta"
  /\ ptaIdx <= Len(ptas)
  /\ LET psrname == psrlist[perm[psrIdx]]
         pta == ptas[ptaIdx]
     IN /\ examined' = examined \cup {<<psrname, pta>>}
        /\ IF RaisesKeyError(FoM_dict, psrname, pta)
             THEN IF CatchesKeyError
                    THEN /\ ptaIdx' = ptaIdx + 1
                         /\ UNCHANGED <<FoM_dict, best, pc>>
                    ELSE /\ pc' = "aborted"
                         /\ UNCHANGED <<FoM_dict, best, ptaIdx>>
             ELSE LET this == FoM_dict[psrname][pta]
                  IN /\ FoM_dict' = AfterRead(FoM_dict, psrname, pta)
                     /\ best' = IF Accepts(this, best)
                                  THEN [pta |-> pta, Tobs |-> this.Tobs, FoM |-> this.FoM]
                                  ELSE best
                     /\ ptaIdx' = ptaIdx + 1
                     /\ UNCHANGED pc
  /\ UNCHANGED <<ptas, psrdict, psrIdx, emits, prevdict>>
  /\ UNCHANGED buildVars
  /\ UNCHANGED <<perm, fomVars, gwbVars>>

(* if best['pta'] is not None: psrdict.update(...) *)
Emit ==
  /\ pc = "pta"
  /\ ptaIdx > Len(ptas)
  /\ LET psrname == psrlist[perm[psrIdx]]
     IN IF best.pta # None
          THEN /\ psrdict' = Update(psrdict, psrname, Entry(best))
               /\ emits' = [emits EXCEPT ![psrname] = @ + 1]
          ELSE UNCHANGED <<psrdict, emits>>
  /\ psrIdx' = psrIdx + 1
  /\ pc' = "psr"
  /\ UNCHANGED <<FoM_dict, ptas, best, ptaIdx, examined, prevdict>>
  /\ UNCHANGED buildVars
  /\ UNCHANGED <<perm, fomVars, gwbVars>>

Next == RunCell \/ NextPsr \/ TryPta \/ Emit

Spec == Init /\ [][Next]_vars

(* The orders in which the pulsars of psrlist can be gone through. *)
Perms ==
  {f \in [1..Len(psrlist) -> 1..Len(psrlist)] :
     \A j, k \in 1..Len(psrlist) : j # k => f[j] # f[k]}

InitOrder == InitSelector(Perms)

(* The Selector cell with the pulsars gone through in any order. *)
SpecOrder == InitOrder /\ [][Next]_vars

----------------------------------------------------------------------------
(* The cell that constructs FoM_dict *)

MaxDay == 1

MaxToas == 2

ToaErrs == {1, 2}

(* A -group value that is in no list of backends. *)
LegacyGroup == "NRT.DDS.1400"

(* A TOA: its time in days, its uncertainty and its -pta and -group flags. *)
ToaKinds ==
  UNION {{[t |-> t, err |-> e, pta |-> c, group |-> g] :
            t \in 0..MaxDay, e \in ToaErrs, g \in {backends[c][1], LegacyGroup}} :
         c \in PtaNames}

RECURSIVE SubsetsUpTo(_, _)
SubsetsUpTo(S, k) ==
  IF k = 0 THEN {{}}
  ELSE LET prev == SubsetsUpTo(S, k - 1)
       IN prev \cup {A \cup {x} : A \in prev, x \in S}

(* The TOAs of the .tim files of the pulsars of psrlist. *)
ToaData ==
  {[p \in Pulsars |-> {x[2] : x \in {y \in A : y[1] = p}}] :
     A \in SubsetsUpTo(Pulsars \X ToaKinds, MaxToas)}

Range(seq) == {seq[k] : k \in DOMAIN seq}

SetMax(S) == CHOOSE x \in S : \A y \in S : y <= x

SetMin(S) == CHOOSE x \in S : \A y \in S : x <= y

(* psr.flagvals('pta') *)
flagvals(T) == {toa.pta : toa \in T}

(* dr2u.filter_psr: marks as deleted the TOAs that do not match the        *)
(* filter and returns the pulsar.                                          *)
filter_psr(ps, filt) ==
  [ps EXCEPT !.deleted =
     {toa \in toas[ps.name] :
        ~(toa.pta \in Range(filt.pta) /\ toa.group \in Range(filt.group))}]

(* The mask taken from the pulsar as it was before the call of            *)
(* filter_psr, as when the result of the call is not assigned to psr.      *)
KeptStale(ps) == toas[ps.name] \ psr.deleted

(* psr.toas()[idx]  with  idx = ~psr.deletedmask() *)
Kept(ps) == toas[ps.name] \ ps.deleted

(* The test on the whole array instead of the masked one. *)
HasSurvivorsUnmasked(ps) == toas[ps.name] # {}

HasSurvivors(ps) == Kept(ps) # {}

SecPerDay == 86400

(* utils.create_quantization_matrix(times, dt, nmin=1): the number of      *)
(* columns of U.  The sorted times are cut into buckets, a time joining    *)
(* the current bucket when it is less than dt after the bucket's first.    *)
RECURSIVE NGroups(_, _)
NGroups(times, dt) ==
  IF times = {} THEN 0
  ELSE LET ref == SetMin(times)
       IN 1 + NGroups({x \in times : ~(x - ref < dt)}, dt)

RECURSIVE SumInv(_)
SumInv(T) ==
  IF T = {} THEN Num(0)
  ELSE LET toa == CHOOSE x \in T : TRUE
       IN RatAdd(Rat(1, toa.err), SumInv(T \ {toa}))

(* 1 / np.mean(1/psr.toaerrs[idx]) *)
HarmonicMean(T) == RatDiv(Num(1), RatDiv(SumInv(T), Num(Cardinality(T))))

DaysPerYear == Rat(1461, 4)

(* The formula with the cadence multiplied instead of divided. *)
bwm_FoMTimesDt(Tobs, dt, TOAerr) == Quot(Sqrt(Mul(Pow(Tobs, 3), dt)), TOAerr)

(* The formula returning sig_h0 instead of 1/sig_h0. *)
bwm_FoMSigma(Tobs, dt, TOAerr) == Mul(TOAerr, Sqrt(Quot(dt, Pow(Tobs, 3))))

bwm_FoM(Tobs, dt, TOAerr) == Quot(Sqrt(Quot(Pow(Tobs, 3), dt)), TOAerr)

my_FoM(Tobs, dt, TOAerr) == bwm_FoM(Tobs, dt, TOAerr)

Span(T) == SetMax({toa.t : toa \in T}) - SetMin({toa.t : toa \in T})

(* The record of TOAs that survive the filter. *)
Summary(T) ==
  LET U == NGroups({toa.t * SecPerDay : toa \in T}, SecPerDay)
      cadence == RatDiv(Num(Span(T)), Num(U))
      Tobs == RatDiv(Num(Span(T)), DaysPerYear)
      sigma == HarmonicMean(T)
  IN [Tobs |-> Tobs, dt |-> cadence, sigma |-> sigma,
      FoM |-> my_FoM(Tobs, cadence, sigma)]

Store(D, psrName, pta, rec) == [D EXCEPT ![psrName] = Update(@, pta, rec)]

ConfiguredPtas == <<"PPTA", "EPTA", "NANOGrav">>

(* A dict file left by an earlier run of the notebook. *)
OldDictFile ==
  <<JsonDump([p \in {"J0437-4715"} |->
               [c \in {"PPTA"} |->
                  [Tobs |-> Num(Tmin + 1), dt |-> Num(1), sigma |-> Num(1),
                   FoM |-> Num(1)]]])>>

(* if redo or not os.path.isfile(dict_file):  of the construction cell *)
BuildGuard == redo \/ ~isfile(dict_file)

(* The TOA data in which every uncertainty is 1. *)
UnitErrData == {d \in ToaData : \A p \in Pulsars : \A toa \in d[p] : toa.err = 1}

(* A data file left by an earlier run of the notebook. *)
OldDataFile == <<"header", <<"J0437-4715", "PPTA">>>>

(* The state before the construction cell runs, for the given choices of   *)
(* the list ptas, the TOA data, redo and the two files.                    *)
InitCells(orders, data, redos, dictfiles, datafiles) ==
  /\ FoM_dict = EmptyDict
  /\ ptas \in orders
  /\ psrdict = EmptyDict
  /\ best = [pta |-> None, Tobs |-> Num(0), FoM |-> Num(0)]
  /\ pc = "idle"
  /\ psrIdx = 1
  /\ ptaIdx = 1
  /\ emits = [p \in Pulsars |-> 0]
  /\ examined = {}
  /\ prevdict = <<>>
  /\ perm = IdPerm
  /\ redo \in redos
  /\ dict_file \in dictfiles
  /\ toas \in data
  /\ psr = NoPsr
  /\ data_file \in datafiles
  /\ fomCalls = {}
  /\ cells = [files |-> <<dict_file, data_file>>, ran |-> <<>>]
  /\ FomIdle
  /\ GwbIdle

InitBuild ==
  InitCells({ConfiguredPtas}, ToaData, BOOLEAN, {NoFile, OldDictFile}, {NoFile})

(* if redo or not os.path.isfile(dict_file): FoM_dict = {}; the data file  *)
(* is opened for writing and receives its header line.                     *)
BuildStart ==
  /\ pc = "idle"
  /\ BuildGuard
  /\ cells' = [cells EXCEPT !.ran = Append(@, "construct")]
  /\ FoM_dict' = EmptyDict
  /\ data_file' = <<"header">>
  /\ psrIdx' = 1
  /\ pc' = "build_psr"
  /\ UNCHANGED <<ptas, ptaIdx, redo, dict_file, toas, psr, fomCalls>>
  /\ UNCHANGED selVars
  /\ UNCHANGED <<fomVars, gwbVars>>

(* The condition of the cell is false: nothing is run. *)
BuildSkip ==
  /\ pc = "idle"
  /\ ~BuildGuard
  /\ pc' = "built"
  /\ UNCHANGED <<FoM_dict, ptas, psrIdx, ptaIdx>>
  /\ UNCHANGED buildVars
  /\ UNCHANGED selVars
  /\ UNCHANGED <<fomVars, gwbVars>>

(* for psrName in psrlist: FoM_dict[psrName] = {}; psr = t2.tempopulsar(..) *)
BuildPsr ==
  /\ pc = "build_psr"
  /\ IF psrIdx <= Len(psrlist)
       THEN /\ FoM_dict' = Update(FoM_dict, psrlist[psrIdx], EmptyDict)
            /\ psr' = [name |-> psrlist[psrIdx], deleted |-> {}]
            /\ ptaIdx' = 1
            /\ pc' = "build_pta"
       ELSE /\ pc' = "built"
            /\ UNCHANGED <<FoM_dict, psr, ptaIdx>>
  /\ UNCHANGED <<ptas, psrIdx, redo, dict_file, toas, data_file, fomCalls, cells>>
  /\ UNCHANGED selVars
  /\ UNCHANGED <<fomVars, gwbVars>>

(* One iteration of  for pta in ptas  of the construction cell. *)
BuildPta ==
  /\ pc = "build_pta"
  /\ ptaIdx <= Len(ptas)
  /\ LET psrName == psrlist[psrIdx]
         pta == ptas[ptaIdx]
         filt == [pta |-> <<pta>>, group |-> backends[pta]]
         ps == filter_psr(psr, filt)
     IN IF pta \in flagvals(toas[psrName])
          THEN /\ psr' = ps
               /\ IF HasSurvivors(ps)
                    THEN IF Kept(ps) = {}
                           THEN (* max() of an empty array raises ValueError *)
                                /\ pc' = "failed"
                                /\ FoM_dict' = Store(FoM_dict, psrName, pta, EmptyDict)
                                /\ UNCHANGED <<ptaIdx, data_file, fomCalls>>
                           ELSE /\ FoM_dict' = Store(FoM_dict, psrName, pta, Summary(Kept(ps)))
                                /\ fomCalls' = fomCalls \cup {<<psrName, pta>>}
                                /\ data_file' = Append(data_file, <<psrName, pta>>)
                                /\ ptaIdx' = ptaIdx + 1
                                /\ UNCHANGED pc
                    ELSE /\ FoM_dict' = Store(FoM_dict, psrName, pta, NoDataRecord)
                         /\ data_file' = Append(data_file, <<psrName, pta>>)
                         /\ ptaIdx' = ptaIdx + 1
                         /\ UNCHANGED <<pc, fomCalls>>
          ELSE /\ ptaIdx' = ptaIdx + 1
               /\ UNCHANGED <<FoM_dict, psr, pc, data_file, fomCalls>>
  /\ UNCHANGED <<ptas, psrIdx, redo, dict_file, toas, cells>>
  /\ UNCHANGED selVars
  /\ UNCHANGED <<fomVars, gwbVars>>

(* del psr *)
BuildPsrEnd ==
  /\ pc = "build_pta"
  /\ ptaIdx > Len(ptas)
  /\ psr' = NoPsr
  /\ psrIdx' = psrIdx + 1
  /\ pc' = "build_psr"
  /\ UNCHANGED <<FoM_dict, ptas, ptaIdx, redo, dict_file, toas, data_file,
                 fomCalls, cells>>
  /\ UNCHANGED selVars
  /\ UNCHANGED <<fomVars, gwbVars>>

NextBuild == BuildStart \/ BuildSkip \/ BuildPsr \/ BuildPta \/ BuildPsrEnd

SpecBuild == InitBuild /\ [][NextBuild]_vars

RECURSIVE IsPow2(_)
IsPow2(d) == d = 1 \/ (d > 1 /\ d % 2 = 0 /\ IsPow2(d \div 2))

(* float(x): x rounded to a 64-bit float.  0, inf and the rationals with   *)
(* a power of two as denominator are kept; any other value is rounded.     *)
ToFloat(x) ==
  IF "op" \in DOMAIN x THEN [op |-> "float", arg |-> x]
  ELSE IF x.d = 0 \/ IsPow2(x.d) THEN x
  ELSE [op |-> "float", arg |-> x]

(* FoM_dict after the three loops of the save cell. *)
Floats(D) ==
  [p \in DOMAIN D |->
     [c \in DOMAIN D[p] |->
        [key \in DOMAIN D[p][c] |-> ToFloat(D[p][c][key])]]]

(* The save cell without its condition. *)
SaveGuardAlways == TRUE

(* if redo or not os.path.isfile(dict_file):  of the save cell *)
SaveGuard == redo \/ ~isfile(dict_file)

(* The save cell.  FoM_dict is a name of the kernel only once the          *)
(* construction cell has run: without it line 413 raises NameError.        *)
SaveCell ==
  /\ pc = "built"
  /\ IF SaveGuard
       THEN /\ cells' = [cells EXCEPT !.ran = Append(@, "save")]
            /\ IF \E k \in DOMAIN cells.ran : cells.ran[k] = "construct"
                 THEN /\ FoM_dict' = Floats(FoM_dict)
                      /\ dict_file' = <<JsonDump(Floats(FoM_dict))>>
                      /\ pc' = "saved"
                 ELSE /\ pc' = "failed"
                      /\ UNCHANGED <<FoM_dict, dict_file>>
       ELSE /\ pc' = "saved"
            /\ UNCHANGED <<FoM_dict, dict_file, cells>>
  /\ UNCHANGED <<ptas, psrIdx, ptaIdx, redo, toas, psr, data_file, fomCalls>>
  /\ UNCHANGED selVars
  /\ UNCHANGED <<fomVars, gwbVars>>

(* with open(dict_file, 'r') as fin: FoM_dict = json.load(fin) *)
LoadCell ==
  /\ pc = "saved"
  /\ IF isfile(dict_file)
       THEN /\ FoM_dict' = JsonLoad(dict_file[1])
            /\ pc' = "loaded"
       ELSE /\ pc' = "failed"
            /\ UNCHANGED FoM_dict
  /\ UNCHANGED <<ptas, psrIdx, ptaIdx>>
  /\ UNCHANGED buildVars
  /\ UNCHANGED selVars
  /\ UNCHANGED <<fomVars, gwbVars>>

InitNotebook ==
  InitCells({ConfiguredPtas}, UnitErrData, BOOLEAN, {NoFile, OldDictFile},
            {NoFile, OldDataFile})

NextNotebook == NextBuild \/ SaveCell \/ LoadCell

(* The construction, save and load cells run from top to bottom. *)
SpecNotebook == InitNotebook /\ [][NextNotebook]_vars

InitBuildOrders == InitCells(Orders, UnitErrData, BOOLEAN, {OldDictFile}, {NoFile})

(* The construction cell with the list ptas in any order. *)
SpecBuildOrders == InitBuildOrders /\ [][NextBuild]_vars

----------------------------------------------------------------------------
(* The FoM formulas as functions of their arguments *)

Abs(x) == IF x < 0 THEN -x ELSE x

(* The signed rational n/d, d # 0, in lowest terms with a positive         *)
(* denominator: the exponents of the formulas, computed with true          *)
(* division.                                                               *)
Q(n, d) ==
  LET g == GCD(Abs(n), Abs(d))
      sg == IF d < 0 THEN -1 ELSE 1
  IN [n |-> (sg * n) \div g, d |-> (sg * d) \div g]

QAdd(a, b) == Q(a.n * b.d + b.n * a.d, a.d * b.d)

QSub(a, b) == Q(a.n * b.d - b.n * a.d, a.d * b.d)

QMul(a, b) == Q(a.n * b.n, a.d * b.d)

QDiv(a, b) == Q(a.n * b.d, a.d * b.n)

QLess(a, b) == a.n * b.d < b.n * a.d

(* Float values of the arguments and results of the formulas: 0, +inf,     *)
(* NaN and the positive values 2**e for a rational e, on which powers,     *)
(* products and quotients are exact.                                       *)
Val(kind, e) == [op |-> "val", kind |-> kind, e |-> e]

Zero == Val("zero", Q(0, 1))

Infinity == Val("inf", Q(0, 1))

NaN == Val("nan", Q(0, 1))

P2(e) == Val("pos", e)

(* v ** q  of numpy *)
PowVal(v, q) ==
  CASE v.kind = "nan" -> NaN
    [] v.kind = "pos" -> P2(QMul(v.e, q))
    [] v.kind = "zero" -> IF q.n > 0 THEN Zero ELSE IF q.n = 0 THEN P2(Q(0, 1)) ELSE Infinity
    [] v.kind = "inf" -> IF q.n > 0 THEN Infinity ELSE IF q.n = 0 THEN P2(Q(0, 1)) ELSE Zero

(* a / b  of numpy floats: a division by zero gives inf or nan *)
DivVal(a, b) ==
  CASE a.kind = "nan" \/ b.kind = "nan" -> NaN
    [] a.kind = "pos" /\ b.kind = "pos" -> P2(QSub(a.e, b.e))
    [] a.kind = "zero" /\ b.kind = "zero" -> NaN
    [] a.kind = "inf" /\ b.kind = "inf" -> NaN
    [] a.kind = "zero" \/ b.kind = "inf" -> Zero
    [] OTHER -> Infinity

MulVal(a, b) ==
  CASE a.kind = "nan" \/ b.kind = "nan" -> NaN
    [] a.kind = "pos" /\ b.kind = "pos" -> P2(QAdd(a.e, b.e))
    [] {a.kind, b.kind} = {"zero", "inf"} -> NaN
    [] a.kind = "zero" \/ b.kind = "zero" -> Zero
    [] OTHER -> Infinity

(* The value of a term whose leaves are values. *)
RECURSIVE Eval(_)
Eval(t) ==
  CASE t.op = "val" -> t
    [] t.op = "**" -> PowVal(Eval(t.base), Q(t.exp, 1))
    [] t.op = "**f" -> PowVal(Eval(t.base), t.exp)
    [] t.op = "sqrt" -> PowVal(Eval(t.arg), Q(1, 2))
    [] t.op = "/" -> DivVal(Eval(t.num), Eval(t.den))
    [] t.op = "*" -> MulVal(Eval(t.left), Eval(t.right))

(* a < b  on values that are not NaN *)
ValLess(a, b) ==
  CASE a.kind = "nan" \/ b.kind = "nan" -> FALSE
    [] a.kind = "pos" /\ b.kind = "pos" -> QLess(a.e, b.e)
    [] a.kind = "zero" -> b.kind # "zero"
    [] a.kind = "pos" -> b.kind = "inf"
    [] OTHER -> FALSE

gwb_FoM_weak(Tobs, dt, TOAerr) ==
  Quot(Quot(PowF(Tobs, QDiv(Q(13, 1), Q(3, 1))), Pow(TOAerr, 2)), dt)

(* The formula with the exponent written  -1/2*13/3. *)
gwb_FoM_interNoParens(Tobs, dt, TOAerr) ==
  Mul(PowF(Tobs, QDiv(Q(1, 1), Q(2, 1))),
      PowF(Mul(Pow(TOAerr, 2), dt),
           QDiv(QMul(QDiv(Q(-1, 1), Q(2, 1)), Q(13, 1)), Q(3, 1))))

gwb_FoM_inter(Tobs, dt, TOAerr) ==
  Mul(PowF(Tobs, QDiv(Q(1, 1), Q(2, 1))),
      PowF(Mul(Pow(TOAerr, 2), dt),
           QDiv(Q(-1, 1), QDiv(QMul(Q(2, 1), Q(13, 1)), Q(3, 1)))))

MaxExp == 1

(* The positive arguments 2**k. *)
Positives == {P2(Q(k, 1)) : k \in (0 - MaxExp)..MaxExp}

FoMArgs == [Tobs : Positives \cup {Zero}, dt : Positives, TOAerr : Positives]

InitFoM ==
  /\ args \in FoMArgs
  /\ fom = <<>>
  /\ pc = "idle"
  /\ FoM_dict = EmptyDict
  /\ ptas = ConfiguredPtas
  /\ psrdict = EmptyDict
  /\ best = [pta |-> None, Tobs |-> Num(0), FoM |-> Num(0)]
  /\ psrIdx = 1
  /\ ptaIdx = 1
  /\ emits = [p \in Pulsars |-> 0]
  /\ examined = {}
  /\ prevdict = <<>>
  /\ perm = IdPerm
  /\ redo = FALSE
  /\ dict_file = NoFile
  /\ toas = [p \in Pulsars |-> {}]
  /\ psr = NoPsr
  /\ data_file = <<>>
  /\ fomCalls = {}
  /\ cells = [files |-> <<dict_file, data_file>>, ran |-> <<>>]
  /\ GwbIdle

(* The variables that a call of a formula leaves alone. *)
notFomVars == <<FoM_dict, ptas, psrIdx, ptaIdx, selVars, buildVars, gwbVars>>

CallBwm ==
  /\ pc = "idle"
  /\ fom' = [fn |-> "bwm_FoM", val |-> Eval(bwm_FoM(args.Tobs, args.dt, args.TOAerr))]
  /\ pc' = "called"
  /\ UNCHANGED <<args, notFomVars>>

CallWeak ==
  /\ pc = "idle"
  /\ fom' = [fn |-> "gwb_FoM_weak",
             val |-> Eval(gwb_FoM_weak(args.Tobs, args.dt, args.TOAerr))]
  /\ pc' = "called"
  /\ UNCHANGED <<args, notFomVars>>

CallInter ==
  /\ pc = "idle"
  /\ fom' = [fn |-> "gwb_FoM_inter",
             val |-> Eval(gwb_FoM_inter(args.Tobs, args.dt, args.TOAerr))]
  /\ pc' = "called"
  /\ UNCHANGED <<args, notFomVars>>

NextFoM == CallBwm \/ CallWeak \/ CallInter

SpecFoM == InitFoM /\ [][NextFoM]_vars

----------------------------------------------------------------------------
(* The notebook of the GWB analysis: the list of pulsars to analyse *)

(* The entries of psrdict_all in the order in which they are written: the  *)
(* name of the pulsar and the list under 'pta'.                            *)
psrdict_all_items ==
  <<<<"J0023+0923", <<"NANOGrav">>>>,
    <<"J0030+0451", <<"EPTA", "NANOGrav">>>>,
    <<"J0034-0534", <<"EPTA">>>>,
    <<"J0218+4232", <<"EPTA">>>>,
    <<"J0340+4130", <<"NANOGrav">>>>,
    <<"J0437-4715", <<"PPTA">>>>,
    <<"J0610-2100", <<"EPTA">>>>,
    <<"J0613-0200", <<"EPTA", "NANOGrav", "PPTA">>>>,
    <<"J0621+1002", <<"EPTA">>>>,
    <<"J0645+5158", <<"NANOGrav">>>>,
    <<"J0711-6830", <<"PPTA">>>>,
    <<"J0751+1807", <<"EPTA">>>>,
    <<"J0900-3144", <<"EPTA">>>>,
    <<"J0931-1902", <<"NANOGrav">>>>,
    <<"J1012+5307", <<"EPTA", "NANOGrav">>>>,
    <<"J1022+1001", <<"EPTA", "PPTA">>>>,
    <<"J1024-0719", <<"EPTA", "NANOGrav", "PPTA">>>>,
    <<"J1045-4509", <<"PPTA">>>>,
    <<"J1455-3330", <<"EPTA", "NANOGrav">>>>,
    <<"J1600-3053", <<"EPTA", "NANOGrav", "PPTA">>>>,
    <<"J1603-7202", <<"PPTA">>>>,
    <<"J1614-2230", <<"NANOGrav">>>>,
    <<"J1640+2224", <<"EPTA", "NANOGrav">>>>,
    <<"J1643-1224", <<"EPTA", "NANOGrav", "PPTA">>>>,
    <<"J1713+0747", <<"EPTA", "NANOGrav", "PPTA">>>>,
    <<"J1721-2457", <<"EPTA">>>>,
    <<"J1730-2304", <<"EPTA", "PPTA">>>>,
    <<"J1738+0333", <<"EPTA", "NANOGrav">>>>,
    <<"J1741+1351", <<"NANOGrav">>>>,
    <<"J1744-1134", <<"EPTA", "NANOGrav", "PPTA">>>>,
    <<"J1747-4036", <<"NANOGrav">>>>,
    <<"J1751-2857", <<"EPTA">>>>,
    <<"J1801-1417", <<"EPTA">>>>,
    <<"J1802-2124", <<"EPTA">>>>,
    <<"J1804-2717", <<"EPTA">>>>,
    <<"J1824-2452A", <<"PPTA">>>>,
    <<"J1832-0836", <<"NANOGrav">>>>,
    <<"J1843-1113", <<"EPTA">>>>,
    <<"J1853+1303", <<"EPTA", "NANOGrav">>>>,
    <<"J1857+0943", <<"EPTA", "NANOGrav", "PPTA">>>>,
    <<"J1903+0327", <<"NANOGrav">>>>,
    <<"J1909-3744", <<"EPTA", "NANOGrav", "PPTA">>>>,
    <<"J1910+1256", <<"EPTA", "NANOGrav">>>>,
    <<"J1911+1347", <<"EPTA">>>>,
    <<"J1911-1114", <<"EPTA">>>>,
    <<"J1918-0642", <<"EPTA", "NANOGrav">>>>,
    <<"J1923+2515", <<"NANOGrav">>>>,
    <<"J1939+2134", <<"EPTA", "NANOGrav", "PPTA">>>>,
    <<"J1944+0907", <<"NANOGrav">>>>,
    <<"J1949+3106", <<"NANOGrav">>>>,
    <<"J1955+2908", <<"EPTA", "NANOGrav">>>>,
    <<"J2010-1323", <<"EPTA", "NANOGrav">>>>,
    <<"J2017+0603", <<"NANOGrav">>>>,
    <<"J2019+2425", <<"EPTA">>>>,
    <<"J2033+1734", <<"EPTA">>>>,
    <<"J2043+1711", <<"NANOGrav">>>>,
    <<"J2124-3358", <<"EPTA", "PPTA">>>>,
    <<"J2129-5721", <<"PPTA">>>>,
    <<"J2145-0750", <<"EPTA", "NANOGrav", "PPTA">>>>,
    <<"J2214+3000", <<"NANOGrav">>>>,
    <<"J2229+2643", <<"EPTA">>>>,
    <<"J2302+4442", <<"NANOGrav">>>>,
    <<"J2317+1439", <<"EPTA", "NANOGrav">>>>,
    <<"J2322+2057", <<"EPTA">>>>>>

psrdict_all ==
  [name \in {psrdict_all_items[k][1] : k \in DOMAIN psrdict_all_items} |->
     LET k == CHOOSE j \in DOMAIN psrdict_all_items : psrdict_all_items[j][1] = name
     IN <<[pta |-> psrdict_all_items[k][2]]>>]

(* psrdict_all.keys(), in the order of the entries; the order that the     *)
(* dict gives does not matter because np.unique sorts the list.            *)
Keys(D) ==
  SelectSeq([k \in DOMAIN psrdict_all_items |-> psrdict_all_items[k][1]],
            LAMBDA name : name \in DOMAIN D)

(* psrdict_all[psr][0].values()[0]: the list of the only key of the first  *)
(* element.                                                                *)
PtasOf(name) == psrdict_all[name][1].pta

PPTA4_psrs == <<"J0437-4715", "J1713+0747", "J1744-1134", "J1909+1256">>

(* The pulsar names of the model in the order of Python's strings. *)
SortedNames ==
  <<
    "J0023+0923", "J0030+0451", "J0034-0534", "J0218+4232", "J0340+4130",
    "J0437-4715", "J0610-2100", "J0613-0200", "J0621+1002", "J0645+5158",
    "J0711-6830", "J0751+1807", "J0900-3144", "J0931-1902", "J1012+5307",
    "J1022+1001", "J1024-0719", "J1045-4509", "J1455-3330", "J1600-3053",
    "J1603-7202", "J1614-2230", "J1640+2224", "J1643-1224", "J1713+0747",
    "J1721-2457", "J1730-2304", "J1738+0333", "J1741+1351", "J1744-1134",
    "J1747-4036", "J1751-2857", "J1801-1417", "J1802-2124", "J1804-2717",
    "J1824-2452A", "J1832-0836", "J1843-1113", "J1853+1303", "J1857+0943",
    "J1903+0327", "J1909+1256", "J1909-3744", "J1910+1256", "J1911+1347",
    "J1911-1114", "J1918-0642", "J1923+2515", "J1939+2134", "J1944+0907",
    "J1949+3106", "J1955+2908", "J2010-1323", "J2017+0603", "J2019+2425",
    "J2033+1734", "J2043+1711", "J2124-3358", "J2129-5721", "J2145-0750",
    "J2214+3000", "J2229+2643", "J2302+4442", "J2317+1439", "J2322+2057"
  >>

(* The state of the notebook of the FoM while the notebook of the GWB      *)
(* analysis runs.                                                          *)
FomNotebookIdle ==
  /\ FoM_dict = EmptyDict
  /\ ptas = ConfiguredPtas
  /\ psrdict = EmptyDict
  /\ best = [pta |-> None, Tobs |-> Num(0), FoM |-> Num(0)]
  /\ psrIdx = 1
  /\ ptaIdx = 1
  /\ emits = [p \in Pulsars |-> 0]
  /\ examined = {}
  /\ prevdict = <<>>
  /\ perm = IdPerm
  /\ redo = FALSE
  /\ dict_file = NoFile
  /\ toas = [p \in Pulsars |-> {}]
  /\ psr = NoPsr
  /\ data_file = NoFile
  /\ fomCalls = {}
  /\ cells = [files |-> <<dict_file, data_file>>, ran |-> <<>>]
  /\ FomIdle

(* The variables that the cells of the GWB notebook leave alone. *)
notGwbVars == <<FoM_dict, ptas, psrIdx, ptaIdx, selVars, buildVars, fomVars>>

MaxSpecific == 1

(* Names that specific_psrs may hold: pulsars of psrdict_all and one name  *)
(* that psrdict_all does not have.                                         *)
SpecificNames == {"J0437-4715", "J1713+0747", "J1909+1256"}

SpecificLists == UNION {[1..n -> SpecificNames] : n \in 0..MaxSpecific}

(* [psr for psr in psrdict_all.keys() if c in psrdict_all[psr][0].values()[0]] *)
Members(c) ==
  SelectSeq(Keys(psrdict_all),
            LAMBDA name : \E k \in DOMAIN PtasOf(name) : PtasOf(name)[k] = c)

(* The list left as it is, without np.unique. *)
NoUnique(list) == list

(* list(np.unique(psrlist)): the names of the list, each once, sorted. *)
Unique(list) ==
  SelectSeq(SortedNames, LAMBDA name : \E k \in DOMAIN list : list[k] = name)

InitPsrlist ==
  /\ FomNotebookIdle
  /\ NG \in BOOLEAN
  /\ EPTA \in BOOLEAN
  /\ PPTA \in BOOLEAN
  /\ PPTA4 \in BOOLEAN
  /\ specific_psrs \in SpecificLists
  /\ gwb_psrlist = <<>>
  /\ psrs = <<>>
  /\ models = <<>>
  /\ datadir = {}
  /\ parfiles = <<>>
  /\ timfiles = <<>>
  /\ pc = "select_NG"

(* The variables of the GWB notebook that the selection of pulsars reads. *)
switchVars == <<NG, EPTA, PPTA, PPTA4, specific_psrs, psrs, models, loadVars>>

(* psrlist = []; if NG: psrlist.extend(...) *)
ExtendNG ==
  /\ pc = "select_NG"
  /\ gwb_psrlist' = IF NG THEN <<>> \o Members("NANOGrav") ELSE <<>>
  /\ pc' = "select_EPTA"
  /\ UNCHANGED <<switchVars, notGwbVars>>

(* if EPTA: psrlist.extend(...) *)
ExtendEPTA ==
  /\ pc = "select_EPTA"
  /\ gwb_psrlist' = IF EPTA THEN gwb_psrlist \o Members("EPTA") ELSE gwb_psrlist
  /\ pc' = "select_PPTA"
  /\ UNCHANGED <<switchVars, notGwbVars>>

(* if PPTA: psrlist.extend(...) *)
ExtendPPTA ==
  /\ pc = "select_PPTA"
  /\ gwb_psrlist' = IF PPTA THEN gwb_psrlist \o Members("PPTA") ELSE gwb_psrlist
  /\ pc' = "select_PPTA4"
  /\ UNCHANGED <<switchVars, notGwbVars>>

(* if PPTA4: psrlist.extend([psr for psr in PPTA4_psrs]) *)
ExtendPPTA4 ==
  /\ pc = "select_PPTA4"
  /\ gwb_psrlist' = IF PPTA4 THEN gwb_psrlist \o PPTA4_psrs ELSE gwb_psrlist
  /\ pc' = "select_specific"
  /\ UNCHANGED <<switchVars, notGwbVars>>

(* if len(specific_psrs): psrlist.extend([psr for psr in specific_psrs]) *)
ExtendSpecific ==
  /\ pc = "select_specific"
  /\ gwb_psrlist' = IF Len(specific_psrs) # 0 THEN gwb_psrlist \o specific_psrs
                    ELSE gwb_psrlist
  /\ pc' = "select_unique"
  /\ UNCHANGED <<switchVars, notGwbVars>>

(* psrlist = list(np.unique(psrlist)) *)
UniquePsrlist ==
  /\ pc = "select_unique"
  /\ gwb_psrlist' = Unique(gwb_psrlist)
  /\ pc' = "selected"
  /\ UNCHANGED <<switchVars, notGwbVars>>

NextPsrlist ==
  ExtendNG \/ ExtendEPTA \/ ExtendPPTA \/ ExtendPPTA4 \/ ExtendSpecific \/ UniquePsrlist

SpecPsrlist == InitPsrlist /\ [][NextPsrlist]_vars

----------------------------------------------------------------------------
(* The notebook of the GWB analysis: one model per loaded pulsar *)

ec == "ec"

dmexp == "dmexp"

(* s = ef + eq + rn + tm + dmgp + dmys + eph + gw: a sum of signals is the *)
(* collection of its terms.                                                *)
s == {"ef", "eq", "rn", "tm", "dmgp", "dmys", "eph", "gw"}

MaxPsrs == 2

GwbNames == {"J0437-4715", "J1713+0747", "J1909-3744"}

(* A loaded pulsar: its name and the values of its -pta flags. *)
LoadedPulsars == [name : GwbNames, flags : SUBSET PtaNames \ {{}}]

(* The lists of loaded pulsars, one pulsar per name. *)
PsrLists ==
  {l \in UNION {[1..n -> LoadedPulsars] : n \in 0..MaxPsrs} :
     \A j, k \in DOMAIN l : j # k => l[j].name # l[k].name}

(* The branches with the test of NANOGrav first, which leaves dmexp out    *)
(* of the model of a J1713+0747 that has NANOGrav TOAs.                    *)
ModelForNGFirst(p) ==
  IF "NANOGrav" \in p.flags THEN [psr |-> p.name, signals |-> s \cup {ec}]
  ELSE IF p.name = "J1713+0747" THEN [psr |-> p.name, signals |-> s \cup {dmexp}]
  ELSE [psr |-> p.name, signals |-> s]

(* The model that the branches of the loop build for pulsar p. *)
ModelFor(p) ==
  IF p.name = "J1713+0747" /\ "NANOGrav" \in p.flags
    THEN [psr |-> p.name, signals |-> s \cup {dmexp} \cup {ec}]
  ELSE IF p.name = "J1713+0747"
    THEN [psr |-> p.name, signals |-> s \cup {dmexp}]
  ELSE IF "NANOGrav" \in p.flags
    THEN [psr |-> p.name, signals |-> s \cup {ec}]
  ELSE [psr |-> p.name, signals |-> s]

InitModels ==
  /\ FomNotebookIdle
  /\ NG = FALSE
  /\ EPTA = FALSE
  /\ PPTA = FALSE
  /\ PPTA4 = FALSE
  /\ specific_psrs = <<>>
  /\ gwb_psrlist = <<>>
  /\ psrs \in PsrLists
  /\ models = <<>>
  /\ datadir = {}
  /\ parfiles = <<>>
  /\ timfiles = <<>>
  /\ pc = "models"

(* One iteration of  for p in psrs  *)
AddModel ==
  /\ pc = "models"
  /\ Len(models) < Len(psrs)
  /\ models' = Append(models, ModelFor(psrs[Len(models) + 1]))
  /\ UNCHANGED <<pc, NG, EPTA, PPTA, PPTA4, specific_psrs, gwb_psrlist, psrs>>
  /\ UNCHANGED <<loadVars, notGwbVars>>

(* pta = signal_base.PTA(models) *)
BuildPTA ==
  /\ pc = "models"
  /\ Len(models) = Len(psrs)
  /\ pc' = "pta"
  /\ UNCHANGED <<gwbVars, notGwbVars>>

NextModels == AddModel \/ BuildPTA

SpecModels == InitModels /\ [][NextModels]_vars

----------------------------------------------------------------------------
(* The notebook of the GWB analysis: the files of the pulsars and their    *)
(* loading                                                                 *)

(* The path of a file of the data directory: directory, name of the        *)
(* pulsar and extension.                                                   *)
File(name, ext) == <<"ipta_dsets/partim_filtered_dir/", name, ext>>

(* x.split('/')[-1].split('.')[0] *)
Stem(x) == x[2]

(* sorted(glob.glob(datadir + '/*.' + ext)): files of one directory and    *)
(* one extension are sorted by the name of the pulsar.                     *)
SortedGlob(ext) ==
  LET names == SelectSeq(SortedNames, LAMBDA name : File(name, ext) \in datadir)
  IN [k \in DOMAIN names |-> File(names[k], ext)]

(* [x for x in files if x.split('/')[-1].split('.')[0] in psrlist] *)
InPsrlist(files) ==
  SelectSeq(files, LAMBDA x : \E k \in DOMAIN gwb_psrlist : gwb_psrlist[k] = Stem(x))

(* zip(parfiles, timfiles): pairs by position, as many as the shorter list *)
Zip(a, b) ==
  [k \in 1..(IF Len(a) < Len(b) THEN Len(a) ELSE Len(b)) |-> <<a[k], b[k]>>]

(* Pulsar(p, t, ephem='DE436'): the pulsar of the .par file p with the     *)
(* TOAs of the .tim file t.                                                *)
Pulsar(p, t) == [name |-> Stem(p), par |-> p, tim |-> t]

(* The lists of pulsars that the selection cell can leave: sorted, each    *)
(* name once.                                                              *)
SelectedLists == {Unique(SelectSeq(SortedNames, LAMBDA name : name \in S)) : S \in SUBSET GwbNames}

InitLoad ==
  /\ FomNotebookIdle
  /\ NG = FALSE
  /\ EPTA = FALSE
  /\ PPTA = FALSE
  /\ PPTA4 = FALSE
  /\ specific_psrs \in SelectedLists
  /\ gwb_psrlist = Unique(specific_psrs)
  /\ datadir \in SUBSET {File(name, ext) : name \in GwbNames, ext \in {"par", "tim"}}
  /\ parfiles = <<>>
  /\ timfiles = <<>>
  /\ psrs = <<>>
  /\ models = <<>>
  /\ pc = "glob"

(* The variables that the cells of the files and of the loading leave      *)
(* alone.                                                                  *)
notLoadVars ==
  <<NG, EPTA, PPTA, PPTA4, specific_psrs, gwb_psrlist, models, datadir, notGwbVars>>

(* The cell that globs the .par and .tim files and filters the two lists   *)
(* by psrlist.                                                             *)
FilterFiles ==
  /\ pc = "glob"
  /\ parfiles' = InPsrlist(SortedGlob("par"))
  /\ timfiles' = InPsrlist(SortedGlob("tim"))
  /\ pc' = "load"
  /\ UNCHANGED <<psrs, notLoadVars>>

(* psrs = []  and one iteration of  for p, t in zip(parfiles, timfiles) *)
LoadPulsar ==
  /\ pc = "load"
  /\ Len(psrs) < Len(Zip(parfiles, timfiles))
  /\ LET pair == Zip(parfiles, timfiles)[Len(psrs) + 1]
     IN psrs' = Append(psrs, Pulsar(pair[1], pair[2]))
  /\ UNCHANGED <<pc, parfiles, timfiles, notLoadVars>>

(* The loop over the pairs has ended. *)
LoadEnd ==
  /\ pc = "load"
  /\ Len(psrs) = Len(Zip(parfiles, timfiles))
  /\ pc' = "loaded_psrs"
  /\ UNCHANGED <<psrs, parfiles, timfiles, notLoadVars>>

NextLoad == FilterFiles \/ LoadPulsar \/ LoadEnd

SpecLoad == InitLoad /\ [][NextLoad]_vars

----------------------------------------------------------------------------
(* Vocabulary of the properties *)

Finished == pc = "done"

HasRecord(p, c) == p \in DOMAIN FoM_dict /\ c \in DOMAIN FoM_dict[p]

AboveThresholds(r) == GT(r.Tobs, Num(Tmin)) /\ LT(r.sigma, Num(sigmax))

(* The PTAs whose record of pulsar p satisfies both thresholds. *)
Candidates(p) == {c \in PtaNames : HasRecord(p, c) /\ AboveThresholds(FoM_dict[p][c])}

FoMOf(p, c) == FoM_dict[p][c].FoM

Assigned(p) == p \in DOMAIN psrdict

Chosen(p) == psrdict[p].pta[1]

Position(c) == CHOOSE k \in DOMAIN ptas : ptas[k] = c

(* The candidates of p whose FoM no other candidate of p exceeds. *)
Top(p) == {c \in Candidates(p) : \A e \in Candidates(p) : ~GT(FoMOf(p, e), FoMOf(p, c))}

NoTie(p) == \A c, e \in Candidates(p) : c # e => FoMOf(p, c) # FoMOf(p, e)

----------------------------------------------------------------------------
(* C1: every pulsar is written to psrdict at most once in a run, and an    *)
(* assigned pulsar's chosen PTA has a record that satisfies both           *)
(* thresholds and whose FoM no other threshold-satisfying record of the    *)
(* pulsar exceeds; it is strictly greatest when no two such records tie.   *)
C1_ChosenIsBestQualifying ==
  \A p \in Pulsars :
    /\ emits[p] <= 1
    /\ Assigned(p) =>
         /\ Chosen(p) \in Candidates(p)
         /\ Chosen(p) \in Top(p)
         /\ NoTie(p) => \A c \in Candidates(p) \ {Chosen(p)} :
                           GT(FoMOf(p, Chosen(p)), FoMOf(p, c))

(* A finished run in which a pulsar with two threshold-satisfying records  *)
(* of different FoM is assigned to the later candidate.                    *)
C1_Witness ==
  /\ Finished
  /\ \E p \in Pulsars :
       /\ Assigned(p)
       /\ Cardinality(Candidates(p)) >= 2
       /\ NoTie(p)
       /\ \E c \in Candidates(p) : Position(c) < Position(Chosen(p))

C4_BoundaryNeverChosen ==
  \A p \in Pulsars :
    Assigned(p) =>
      /\ FoM_dict[p][Chosen(p)].Tobs # Num(Tmin)
      /\ FoM_dict[p][Chosen(p)].sigma # Num(sigmax)

(* A finished run over a pulsar whose two records lie one on the Tobs      *)
(* threshold and one on the sigma threshold, both with a positive FoM:     *)
(* the pulsar is left unassigned.                                          *)
C4_Witness ==
  /\ Finished
  /\ \E p \in Pulsars, c, e \in PtaNames :
       /\ HasRecord(p, c) /\ FoM_dict[p][c].Tobs = Num(Tmin)
       /\ HasRecord(p, e) /\ FoM_dict[p][e].sigma = Num(sigmax)
       /\ GT(FoMOf(p, c), Num(0)) /\ GT(FoMOf(p, e), Num(0))
       /\ ~Assigned(p)

(* C5: a run that follows a finished run over the same inputs ends with    *)
(* the same psrdict.                                                       *)
C5_RerunSameTable ==
  (Finished /\ prevdict # <<>>) => psrdict = prevdict[1]

(* A second run has finished with both pulsars assigned, to different      *)
(* PTAs.                                                                   *)
C5_Witness ==
  /\ Finished
  /\ prevdict # <<>>
  /\ \A p \in Pulsars : Assigned(p)
  /\ \E p, q \in Pulsars : Chosen(p) # Chosen(q)

(* C6: a missing record never aborts the run, and a finished run has       *)
(* examined every candidate PTA of every pulsar of psrlist.                *)
C6_MissingRecordSkipped ==
  /\ pc # "aborted"
  /\ Finished => examined = Pulsars \X PtaNames

(* A finished run in which the first pulsar has no record for the first    *)
(* candidate and is assigned to a later one, and the pulsar after it is    *)
(* assigned too.                                                           *)
C6_Witness ==
  /\ Finished
  /\ ~HasRecord(psrlist[1], ptas[1])
  /\ Assigned(psrlist[1])
  /\ Assigned(psrlist[2])

(* C7: a pulsar that is no key of FoM_dict is never a key of psrdict.      *)
C7_AbsentPulsarNotAssigned ==
  \A p \in Pulsars : p \notin DOMAIN FoM_dict => ~Assigned(p)

(* A finished run over psrlist whose last pulsar is no key of FoM_dict,    *)
(* after a pulsar that was assigned.                                       *)
C7_Witness ==
  /\ Finished
  /\ psrlist[Len(psrlist)] \notin DOMAIN FoM_dict
  /\ Assigned(psrlist[1])

(* C8: every entry of psrdict has exactly the keys pta and group, pta      *)
(* being a list of one member of ptas and group the backend list of that   *)
(* member.                                                                 *)
C8_EntryShape ==
  \A p \in DOMAIN psrdict :
    /\ DOMAIN psrdict[p] = {"pta", "group"}
    /\ Len(psrdict[p].pta) = 1
    /\ \E k \in DOMAIN ptas : ptas[k] = psrdict[p].pta[1]
    /\ psrdict[p].group = backends[psrdict[p].pta[1]]

(* A finished run with a pulsar assigned to a PTA that is not the last     *)
(* candidate.                                                              *)
C8_Witness ==
  /\ Finished
  /\ \E p \in Pulsars : Assigned(p) /\ Chosen(p) # ptas[Len(ptas)]

(* The TOAs of pulsar p that carry the -pta flag c and a -group flag of    *)
(* the backend list of c.                                                  *)
Survivors(p, c) ==
  {toa \in toas[p] :
     toa.pta = c /\ \E k \in DOMAIN backends[c] : backends[c][k] = toa.group}

(* C9: the construction never fails, and the record of a (pulsar, PTA)     *)
(* with no surviving TOA is exactly Tobs = 0, sigma = +infinity,           *)
(* dt = +infinity and FoM = 0, written without an evaluation of my_FoM.    *)
C9_NoSurvivorRecord ==
  /\ pc # "failed"
  /\ \A p \in DOMAIN FoM_dict :
       \A c \in DOMAIN FoM_dict[p] :
         Survivors(p, c) = {} =>
           /\ FoM_dict[p][c] = [Tobs |-> [n |-> 0, d |-> 1], dt |-> [n |-> 1, d |-> 0],
                                sigma |-> [n |-> 1, d |-> 0], FoM |-> [n |-> 0, d |-> 1]]
           /\ <<p, c>> \notin fomCalls

(* The construction has ended with a pulsar that has a record without      *)
(* surviving TOAs for one PTA and a record computed by my_FoM for another. *)
C9_Witness ==
  /\ pc = "built"
  /\ \E p \in Pulsars, c, e \in PtaNames :
       /\ HasRecord(p, c) /\ Survivors(p, c) = {}
       /\ HasRecord(p, e) /\ <<p, e>> \in fomCalls

(* C10: the record of a chosen PTA never has FoM = 0 and Tobs = 0.         *)
C10_EmptyRecordNeverChosen ==
  \A p \in Pulsars :
    Assigned(p) =>
      ~(FoM_dict[p][Chosen(p)].FoM = Num(0) /\ FoM_dict[p][Chosen(p)].Tobs = Num(0))

(* A finished run over a pulsar that has a record with FoM = 0 and        *)
(* Tobs = 0 for the first candidate and is assigned to another PTA.        *)
C10_Witness ==
  /\ Finished
  /\ \E q \in Pulsars :
       /\ HasRecord(q, ptas[1])
       /\ FoM_dict[q][ptas[1]].FoM = Num(0) /\ FoM_dict[q][ptas[1]].Tobs = Num(0)
       /\ Assigned(q)

----------------------------------------------------------------------------
(* The positive-argument calls of the formulas *)

Called(f) == pc = "called" /\ fom.fn = f

PositiveArgs == args.Tobs.kind = "pos" /\ args.dt.kind = "pos" /\ args.TOAerr.kind = "pos"

(* sqrt(T) * (sigma**2 * dt) ** x  for positive T, dt and sigma, from the  *)
(* exponents of the arguments.                                             *)
InterWithExponent(x) ==
  P2(QAdd(QMul(args.Tobs.e, Q(1, 2)),
          QMul(QAdd(QMul(Q(2, 1), args.TOAerr.e), args.dt.e), x)))

(* C11 as stated: for positive T, dt and sigma, gwb_FoM_inter returns      *)
(* sqrt(T) * (sigma**2 * dt) ** (-3/13).                                   *)
C11_InterExponent3Over13 ==
  (Called("gwb_FoM_inter") /\ PositiveArgs) => fom.val = InterWithExponent(Q(-3, 13))

(* C11 amended: for positive T, dt and sigma, gwb_FoM_inter returns        *)
(* sqrt(T) * (sigma**2 * dt) ** (-3/26), the exponent -1/(2*beta) with     *)
(* beta = 13/3.                                                            *)
C11_InterExponent3Over26 ==
  (Called("gwb_FoM_inter") /\ PositiveArgs) => fom.val = InterWithExponent(Q(-3, 26))

(* A call of gwb_FoM_inter with positive arguments whose sigma**2 * dt is  *)
(* not 1, so that the exponent shows in the result.                        *)
C11_Witness ==
  /\ Called("gwb_FoM_inter")
  /\ PositiveArgs
  /\ QAdd(QMul(Q(2, 1), args.TOAerr.e), args.dt.e) # Q(0, 1)

(* C12: for positive T, dt and sigma, bwm_FoM is strictly greater at every *)
(* greater T, strictly smaller at every greater dt and strictly smaller at *)
(* every greater sigma, the other two arguments being the same.            *)
C12_BwmMonotone ==
  (Called("bwm_FoM") /\ PositiveArgs) =>
    /\ \A T \in Positives :
         ValLess(args.Tobs, T) =>
           ValLess(fom.val, Eval(bwm_FoM(T, args.dt, args.TOAerr)))
    /\ \A dt \in Positives :
         ValLess(args.dt, dt) =>
           ValLess(Eval(bwm_FoM(args.Tobs, dt, args.TOAerr)), fom.val)
    /\ \A TOAerr \in Positives :
         ValLess(args.TOAerr, TOAerr) =>
           ValLess(Eval(bwm_FoM(args.Tobs, args.dt, TOAerr)), fom.val)

(* A call of bwm_FoM with positive arguments each of which has a greater   *)
(* value among the arguments considered.                                   *)
C12_Witness ==
  /\ Called("bwm_FoM")
  /\ PositiveArgs
  /\ \E T, dt, TOAerr \in Positives :
       ValLess(args.Tobs, T) /\ ValLess(args.dt, dt) /\ ValLess(args.TOAerr, TOAerr)

(* C13: with T = 0 and positive finite dt and sigma, each of bwm_FoM,      *)
(* gwb_FoM_weak and gwb_FoM_inter returns 0.                               *)
C13_ZeroBaselineZeroFoM ==
  (pc = "called" /\ args.Tobs = Zero /\ args.dt.kind = "pos" /\ args.TOAerr.kind = "pos")
    => fom.val = Zero

(* A call of bwm_FoM with T = 0 and positive dt and sigma. *)
C13_Witness ==
  /\ Called("bwm_FoM")
  /\ args.Tobs = Zero
  /\ args.dt.kind = "pos"
  /\ args.TOAerr.kind = "pos"

----------------------------------------------------------------------------
(* The records of pulsar p that line 459 can accept: both thresholds hold  *)
(* and the FoM is above the FoM 0 of the initial best.                     *)
Eligible(p) == {c \in Candidates(p) : GT(FoMOf(p, c), Num(0))}

(* The PTA that the records of pulsar p and the order of ptas single out:  *)
(* of the eligible records of greatest FoM the one first in ptas.          *)
Winner(p) ==
  IF Eligible(p) = {} THEN None
  ELSE CHOOSE c \in Eligible(p) :
         \A e \in Eligible(p) :
           /\ ~GT(FoMOf(p, e), FoMOf(p, c))
           /\ FoMOf(p, e) = FoMOf(p, c) => Position(c) <= Position(e)

(* C14: after a run, whether a pulsar is in psrdict and with which PTA is  *)
(* a function of that pulsar's own records, the thresholds and the order   *)
(* of ptas: it is the same whatever the records of the other pulsars are   *)
(* and in whatever order the pulsars are gone through.                     *)
C14_OwnRecordsDecide ==
  Finished =>
    \A p \in Pulsars :
      /\ Assigned(p) <=> Winner(p) # None
      /\ Assigned(p) => Chosen(p) = Winner(p)

(* A finished run that goes through psrlist in another order, in which a   *)
(* pulsar is assigned while the pulsar gone through before it has a        *)
(* threshold-satisfying record of another PTA and of greater FoM.          *)
C14_Witness ==
  /\ Finished
  /\ perm # IdPerm
  /\ \E p, q \in Pulsars :
       /\ p # q
       /\ Assigned(p)
       /\ \E j, k \in DOMAIN perm : j < k /\ psrlist[perm[j]] = q /\ psrlist[perm[k]] = p
       /\ \E c \in Candidates(q) :
            /\ c # Chosen(p)
            /\ GT(FoMOf(q, c), FoMOf(p, Chosen(p)))

----------------------------------------------------------------------------
(* C15: no step of the Selector cell changes FoM_dict, ptas or the files   *)
(* and data of the earlier cells (Tmin, sigmax and backends are constants  *)
(* that no step can assign); the steps write psrdict, best and the         *)
(* positions of the two loops only.                                        *)
C15_SelectorLeavesInputs ==
  [][/\ FoM_dict' = FoM_dict
     /\ ptas' = ptas
     /\ perm' = perm
     /\ buildVars' = buildVars]_vars

(* A finished run that has read a record, accepted it and written psrdict. *)
C15_Witness ==
  /\ Finished
  /\ psrdict # EmptyDict
  /\ \E p \in Pulsars, c \in PtaNames : <<p, c>> \in examined /\ HasRecord(p, c)

----------------------------------------------------------------------------
(* The number of quantization groups of the surviving TOAs of (p, c). *)
GroupsOf(p, c) == NGroups({toa.t * SecPerDay : toa \in Survivors(p, c)}, SecPerDay)

(* C16: the baseline and the cadence passed to my_FoM for a (pulsar, PTA)   *)
(* are in one time unit: the cadence is the baseline divided by the        *)
(* number of quantization groups.                                          *)
C16_BaselineAndCadenceSameUnit ==
  \A p \in Pulsars, c \in PtaNames :
    (<<p, c>> \in fomCalls /\ HasRecord(p, c)) =>
      FoM_dict[p][c].dt = RatDiv(FoM_dict[p][c].Tobs, Num(GroupsOf(p, c)))

(* The record that the TOAs of pulsar p and the filter of PTA c single     *)
(* out.                                                                    *)
RecordOf(p, c) ==
  IF Survivors(p, c) = {} THEN NoDataRecord ELSE Summary(Survivors(p, c))

----------------------------------------------------------------------------
(* redo is False and the dict file existed before the first cell. *)
AlreadySaved == ~redo /\ isfile(cells.files[1])

(* C18: when redo is False and the dict file exists, the bodies of the     *)
(* construction and save cells are not entered, the dict file and the      *)
(* data file stay as they were and the load cell gives FoM_dict the        *)
(* contents of the existing file; otherwise both bodies are entered, the   *)
(* construction cell's first, and no cell fails.                           *)
C18_SkipWhenSaved ==
  /\ pc # "failed"
  /\ AlreadySaved =>
       /\ cells.ran = <<>>
       /\ dict_file = cells.files[1]
       /\ data_file = cells.files[2]
       /\ pc = "loaded" => FoM_dict = JsonLoad(cells.files[1][1])
  /\ ~AlreadySaved =>
       /\ pc = "built" => cells.ran = <<"construct">>
       /\ pc \in {"saved", "loaded"} =>
            /\ cells.ran = <<"construct", "save">>
            /\ isfile(dict_file)
            /\ isfile(data_file)
       /\ pc = "loaded" => JsonDump(FoM_dict) = dict_file[1]

(* The three cells were run with redo False over an existing dict file     *)
(* and an existing data file.                                              *)
C18_Witness ==
  /\ pc = "loaded"
  /\ AlreadySaved
  /\ isfile(cells.files[2])
  /\ FoM_dict # EmptyDict

----------------------------------------------------------------------------
(* C19: the loop appends one model per loaded pulsar, in the order of      *)
(* psrs; a model has dmexp exactly when its pulsar is J1713+0747, has ec   *)
(* exactly when 'NANOGrav' is among the pulsar's pta flags, and always     *)
(* has the signals of s.                                                   *)
C19_OneModelPerPulsar ==
  /\ Len(models) <= Len(psrs)
  /\ pc = "pta" => Len(models) = Len(psrs)
  /\ \A k \in DOMAIN models :
       /\ models[k].psr = psrs[k].name
       /\ dmexp \in models[k].signals <=> psrs[k].name = "J1713+0747"
       /\ ec \in models[k].signals <=> "NANOGrav" \in psrs[k].flags
       /\ s \subseteq models[k].signals

(* The PTA was built from a J1713+0747 with NANOGrav TOAs and a pulsar     *)
(* with neither that name nor NANOGrav TOAs.                               *)
C19_Witness ==
  /\ pc = "pta"
  /\ \E j, k \in DOMAIN psrs :
       /\ psrs[j].name = "J1713+0747" /\ "NANOGrav" \in psrs[j].flags
       /\ psrs[k].name # "J1713+0747" /\ "NANOGrav" \notin psrs[k].flags

(* The names of the pulsars of psrdict_all whose list has PTA c. *)
Of(c) == {name \in DOMAIN psrdict_all : c \in Range(PtasOf(name))}

(* C20: the list of pulsars has no name twice and holds exactly the names  *)
(* of the enabled subsets: the NANOGrav, EPTA and PPTA pulsars of          *)
(* psrdict_all for NG, EPTA and PPTA, PPTA4_psrs for PPTA4, and            *)
(* specific_psrs; with every switch off and specific_psrs empty it is      *)
(* empty.                                                                  *)
C20_PsrlistIsUnion ==
  pc = "selected" =>
    /\ \A j, k \in DOMAIN gwb_psrlist : j # k => gwb_psrlist[j] # gwb_psrlist[k]
    /\ Range(gwb_psrlist) =
         (IF NG THEN Of("NANOGrav") ELSE {})
           \cup (IF EPTA THEN Of("EPTA") ELSE {})
           \cup (IF PPTA THEN Of("PPTA") ELSE {})
           \cup (IF PPTA4 THEN Range(PPTA4_psrs) ELSE {})
           \cup Range(specific_psrs)
    /\ (~NG /\ ~EPTA /\ ~PPTA /\ ~PPTA4 /\ specific_psrs = <<>>) => gwb_psrlist = <<>>

(* The list was made with two overlapping subsets, PPTA4 and a specific    *)
(* pulsar enabled.                                                         *)
C20_Witness ==
  /\ pc = "selected"
  /\ NG /\ EPTA /\ PPTA4
  /\ specific_psrs # <<>>
  /\ Of("NANOGrav") \cap Of("EPTA") # {}

----------------------------------------------------------------------------
(* C21: when the PPTA4 subset is selected, every name of PPTA4_psrs that   *)
(* is put into the list of pulsars is a key of psrdict_all whose pta list  *)
(* has 'PPTA'.                                                             *)
C21_PPTA4KnownToPsrdictAll ==
  (pc = "selected" /\ PPTA4) =>
    \A k \in DOMAIN PPTA4_psrs :
      PPTA4_psrs[k] \in Range(gwb_psrlist) =>
        /\ PPTA4_psrs[k] \in DOMAIN psrdict_all
        /\ "PPTA" \in Range(PtasOf(PPTA4_psrs[k]))

----------------------------------------------------------------------------
(* C22: once the pulsars are loaded, every loaded Pulsar is built from a   *)
(* .par file and a .tim file of the same pulsar name, and every pulsar of  *)
(* the list of pulsars that has a .par file in the data directory has      *)
(* exactly one Pulsar built from that file, whatever files are there.      *)
C22_PulsarFromSameNameFiles ==
  pc = "loaded_psrs" =>
    /\ \A k \in DOMAIN psrs : Stem(psrs[k].par) = Stem(psrs[k].tim)
    /\ \A name \in Range(gwb_psrlist) :
         File(name, "par") \in datadir =>
           Cardinality({k \in DOMAIN psrs : psrs[k].par = File(name, "par")}) = 1

====
